---- MODULE Spec2Model ----
(***************************************************************************)
(* Model of libpqxx's binary escaping codec (src/src/util.cxx) and of the  *)
(* connection_transaction call gate                                        *)
(* (src/include/pqxx/internal/gates/connection-transaction.hxx).           *)
(*                                                                         *)
(* Characters are their ASCII codes.  A `char` of a std::string_view is a  *)
(* signed value -128..127, a std::byte / unsigned char is 0..255.          *)
(* A piece of memory is a record [cells, ub]: the cells of the array, and  *)
(* whether an access outside the array has happened (undefined behaviour). *)
(***************************************************************************)
EXTENDS Integers, Sequences, FiniteSets, TLC

(***************************************************************************)
(* Bounds of the model.                                                    *)
(***************************************************************************)
\* Longest raw byte sequence handed to esc_bin.
MaxBytes == 2
\* Longest arbitrary text handed to unesc_bin.
MaxShort == 3
\* Longest body following a correct "\x" prefix handed to unesc_bin.
MaxBody == 4
\* Cells a caller's buffer has beyond what the call needs.
Slack == 2
\* Width of std::size_t in bits, scaled down from 64 so that the wrap-around
\* arithmetic stays inside TLC's integers.
SizeBits == 16
\* Transactions that exist, lines a COPY can carry.
NumTransactions == 2
MaxLines == 2

(***************************************************************************)
(* Character literals of util.cxx.                                         *)
(***************************************************************************)
Backslash == 92
CharX == 120
Char0 == 48
Char9 == 57
CharLa == 97
CharLf == 102
CharUA == 65
CharUF == 70
NUL == 0

\* Content of a cell the call under study has not written.
Untouched == 0 - 1

\* Messages of the exceptions unesc_bin throws (the third without the stray
\* backquote it has in the source).
NoError == "no error"
Truncated == "Binary data appears truncated."
InvalidLength == "Invalid escaped binary length."
MissingPrefix == "Escaped binary data did not start with '\\x'.  Is the server or libpq too old?"
InvalidHex == "Invalid hex-escaped data."
\* std::string::resize beyond max_size(), or an allocation that cannot be met.
LengthError == "std::length_error"

(***************************************************************************)
(* Memory.                                                                 *)
(***************************************************************************)
Fill(n, v) == [i \in 1..n |-> v]

Memory(n, v) == [cells |-> Fill(n, v), ub |-> FALSE]

\* *(base + pos) = v
Poke(mem, pos, v) ==
  IF pos >= 0 /\ pos < Len(mem.cells)
    THEN [mem EXCEPT !.cells[pos + 1] = v]
    ELSE [mem EXCEPT !.ub = TRUE]

\* static_cast<unsigned char>(c)
to_unsigned_char(c) == c % 256

\* The char whose representation is the byte b (reinterpret_cast of the buffer).
to_char(b) == IF b >= 128 THEN b - 256 ELSE b

(***************************************************************************)
(* util.cxx, anonymous namespace.                                          *)
(***************************************************************************)
hex == <<48, 49, 50, 51, 52, 53, 54, 55, 56, 57, 97, 98, 99, 100, 101, 102>>

hex_upper == <<48, 49, 50, 51, 52, 53, 54, 55, 56, 57, 65, 66, 67, 68, 69, 70>>

hex_digit_upper(c) == hex_upper[c + 1]

hex_digit(c) == hex[c + 1]

nibble_no_offset(c) ==
  IF c >= Char0 /\ c <= Char9 THEN c - Char0
  ELSE IF c >= CharLa /\ c <= CharLf THEN c - CharLa
  ELSE IF c >= CharUA /\ c <= CharUF THEN 10 + (c - CharUA)
  ELSE 0 - 1

nibble_lower_only(c) ==
  IF c >= Char0 /\ c <= Char9 THEN c - Char0
  ELSE IF c >= CharLa /\ c <= CharLf THEN 10 + (c - CharLa)
  ELSE 0 - 1

nibble(c) ==
  IF c >= Char0 /\ c <= Char9 THEN c - Char0
  ELSE IF c >= CharLa /\ c <= CharLf THEN 10 + (c - CharLa)
  ELSE IF c >= CharUA /\ c <= CharUF THEN 10 + (c - CharUA)
  ELSE 0 - 1

(***************************************************************************)
(* Size computations (pqxx/util.hxx).                                      *)
(***************************************************************************)
SizeModulus == 2 ^ SizeBits

\* std::string::max_size()
string_max_size == 2 ^ (SizeBits - 2) - 1

size_esc_bin(binary_bytes) == (2 + (2 * binary_bytes) + 1) % SizeModulus

size_unesc_bin(escaped_bytes) == ((escaped_bytes - 2) % SizeModulus) \div 2

(***************************************************************************)
(* esc_bin(std::string_view, char[])                                       *)
(***************************************************************************)
RECURSIVE esc_bin_loop(_, _, _, _)
esc_bin_loop(binary_data, i, mem, here) ==
  IF i > Len(binary_data) THEN [mem |-> mem, here |-> here]
  ELSE LET uc == to_unsigned_char(binary_data[i])
           m1 == Poke(mem, here, hex_digit(uc \div 16))
           m2 == Poke(m1, here + 1, hex_digit(uc % 16))
       IN  esc_bin_loop(binary_data, i + 1, m2, here + 2)

esc_bin_no_terminator(binary_data, buffer) ==
  LET m1 == Poke(buffer, 0, Backslash)
      m2 == Poke(m1, 1, CharX)
  IN  esc_bin_loop(binary_data, 1, m2, 2).mem

esc_bin(binary_data, buffer) ==
  LET m1 == Poke(buffer, 0, Backslash)
      m2 == Poke(m1, 1, CharX)
      r  == esc_bin_loop(binary_data, 1, m2, 2)
  IN  Poke(r.mem, r.here, NUL)

(***************************************************************************)
(* esc_bin(std::string_view) -> std::string                                *)
(***************************************************************************)
esc_bin_string(binary_data) ==
  LET bytes == size_esc_bin(Len(binary_data))
      buf   == esc_bin(binary_data, Memory(bytes, NUL))
  IN  [ret |-> SubSeq(buf.cells, 1, bytes - 1), ub |-> buf.ub]

(***************************************************************************)
(* unesc_bin(std::string_view, std::byte[])                                *)
(* The result is [mem, thrown, ub]: the buffer afterwards, the message of  *)
(* the pqxx::failure thrown (or NoError), and whether the input was read   *)
(* outside its bounds or the buffer written outside its bounds.            *)
(***************************************************************************)
Throw(mem, what) == [mem |-> mem, thrown |-> what, ub |-> mem.ub]

\* *in++ with in at or beyond end: undefined behaviour.
ReadOutside(mem) == [mem |-> mem, thrown |-> NoError, ub |-> TRUE]

RECURSIVE unesc_bin_loop(_, _, _, _)
unesc_bin_loop(escaped_data, in, mem, out) ==
  IF in = Len(escaped_data) THEN Throw(mem, NoError)
  ELSE IF in > Len(escaped_data) THEN ReadOutside(mem)
  ELSE LET hi == nibble(escaped_data[in + 1])
           lo == nibble(escaped_data[in + 2])
       IN  IF hi < 0 THEN Throw(mem, InvalidHex)
           ELSE IF in + 1 >= Len(escaped_data) THEN ReadOutside(mem)
           ELSE IF lo < 0 THEN Throw(mem, InvalidHex)
           ELSE unesc_bin_loop(escaped_data, in + 2,
                               Poke(mem, out, (hi * 16) + lo), out + 1)

unesc_bin_prefix_first(escaped_data, buffer) ==
  LET in_size == Len(escaped_data)
  IN  IF in_size < 2 THEN Throw(buffer, Truncated)
      ELSE IF escaped_data[1] # Backslash \/ escaped_data[2] # CharX
        THEN Throw(buffer, MissingPrefix)
      ELSE IF (in_size % 2) # 0 THEN Throw(buffer, InvalidLength)
      ELSE unesc_bin_loop(escaped_data, 2, buffer, 0)

RECURSIVE unesc_bin_loop_eager(_, _, _, _)
unesc_bin_loop_eager(escaped_data, in, mem, out) ==
  IF in = Len(escaped_data) THEN Throw(mem, NoError)
  ELSE IF in > Len(escaped_data) THEN ReadOutside(mem)
  ELSE LET hi == nibble(escaped_data[in + 1])
           lo == nibble(escaped_data[in + 2])
       IN  IF hi < 0 THEN Throw(mem, InvalidHex)
           ELSE IF in + 1 >= Len(escaped_data) THEN ReadOutside(mem)
           ELSE IF lo < 0 THEN Throw(Poke(mem, out, hi * 16), InvalidHex)
           ELSE unesc_bin_loop_eager(escaped_data, in + 2,
                                     Poke(mem, out, (hi * 16) + lo), out + 1)

unesc_bin_eager(escaped_data, buffer) ==
  LET in_size == Len(escaped_data)
  IN  IF in_size < 2 THEN Throw(buffer, Truncated)
      ELSE IF (in_size % 2) # 0 THEN Throw(buffer, InvalidLength)
      ELSE IF escaped_data[1] # Backslash \/ escaped_data[2] # CharX
        THEN Throw(buffer, MissingPrefix)
      ELSE unesc_bin_loop_eager(escaped_data, 2, buffer, 0)

unesc_bin(escaped_data, buffer) ==
  LET in_size == Len(escaped_data)
  IN  IF in_size < 2 THEN Throw(buffer, Truncated)
      ELSE IF (in_size % 2) # 0 THEN Throw(buffer, InvalidLength)
      ELSE IF escaped_data[1] # Backslash \/ escaped_data[2] # CharX
        THEN Throw(buffer, MissingPrefix)
      ELSE unesc_bin_loop(escaped_data, 2, buffer, 0)

(***************************************************************************)
(* unesc_bin(std::string_view) -> std::string                              *)
(***************************************************************************)
\* buf.resize(n) on an empty std::string: n zero characters, or
\* std::length_error when n exceeds max_size().
string_resize(n) ==
  IF n > string_max_size
    THEN [ok |-> FALSE, mem |-> Memory(0, NUL)]
    ELSE [ok |-> TRUE, mem |-> Memory(n, NUL)]

unesc_bin_string(escaped_data) ==
  LET bytes == size_unesc_bin(Len(escaped_data))
      buf   == string_resize(bytes)
  IN  IF ~buf.ok THEN [ret |-> <<>>, thrown |-> LengthError, ub |-> FALSE]
      ELSE LET r == unesc_bin(escaped_data, buf.mem)
           IN  [ret    |-> IF r.thrown = NoError
                             THEN [i \in 1..bytes |-> to_char(r.mem.cells[i])]
                             ELSE <<>>,
                thrown |-> r.thrown,
                ub     |-> r.ub \/ r.mem.ub]

(***************************************************************************)
(* The connection behind the gate (pqxx::connection): the registration     *)
(* slot and the COPY stream.  A connection is a record                     *)
(*   [m_trans, copy_state, pending, sent]                                  *)
(* and each member function maps it to [home, thrown, more]: the           *)
(* connection afterwards, the exception thrown (or NoError) and the value  *)
(* returned by read_copy_line.                                             *)
(***************************************************************************)
NoTransaction == 0

UsageError == "pqxx::usage_error"

Transactions == 1..NumTransactions

Returns(home) == [home |-> home, thrown |-> NoError, more |-> FALSE]

Fails(home, what) == [home |-> home, thrown |-> what, more |-> FALSE]

connection_register_transaction(home, t) ==
  IF home.m_trans # NoTransaction
    THEN Fails(home, UsageError)
    ELSE Returns([home EXCEPT !.m_trans = t])

connection_unregister_transaction(home, t) ==
  IF home.m_trans = t
    THEN Returns([home EXCEPT !.m_trans = NoTransaction])
    ELSE Returns(home)

\* exec of a statement that starts a COPY: query is "copy-in" or "copy-out",
\* lines is what the backend will deliver on a copy-out.
connection_exec(home, query, lines) ==
  Returns([home EXCEPT !.copy_state = query,
                       !.pending = IF query = "copy-out" THEN lines ELSE 0,
                       !.sent = 0])

connection_read_copy_line(home) ==
  IF home.copy_state # "copy-out" THEN Fails(home, UsageError)
  ELSE IF home.pending > 1
    THEN [home |-> [home EXCEPT !.pending = home.pending - 1],
          thrown |-> NoError, more |-> TRUE]
    ELSE [home |-> [home EXCEPT !.pending = 0, !.copy_state = "inactive"],
          thrown |-> NoError, more |-> FALSE]

connection_write_copy_line(home) ==
  IF home.copy_state # "copy-in" THEN Fails(home, UsageError)
  ELSE Returns([home EXCEPT !.sent = home.sent + 1])

connection_end_copy_write(home) ==
  IF home.copy_state # "copy-in" THEN Fails(home, UsageError)
  ELSE Returns([home EXCEPT !.copy_state = "inactive", !.sent = 0])

(***************************************************************************)
(* gate::connection_transaction: every member forwards to home().          *)
(***************************************************************************)
exec(home, query, lines) == connection_exec(home, query, lines)

register_transaction_unchecked(home, t) ==
  Returns([home EXCEPT !.m_trans = t])

register_transaction(home, t) == connection_register_transaction(home, t)

unregister_transaction_as_register(home, t) ==
  connection_register_transaction(home, t)

unregister_transaction(home, t) == connection_unregister_transaction(home, t)

read_copy_line(home) == connection_read_copy_line(home)

write_copy_line(home) == connection_write_copy_line(home)

end_copy_write_as_write(home) == connection_write_copy_line(home)

end_copy_write(home) == connection_end_copy_write(home)

(***************************************************************************)
(* State.                                                                  *)
(***************************************************************************)
VARIABLES
  given,         \* what the caller starts from: "binary" or "text"
  binary_data,   \* the argument of the latest esc_bin
  escaped_data,  \* the argument of the latest unesc_bin
  call,          \* the latest codec call
  buffer,        \* the caller's buffer after the latest buffer-variant call
  ret,           \* the std::string the latest allocating call returned
  thrown,        \* the message of the exception the latest call threw
  ub,            \* the latest call read or wrote outside an array
  home,          \* the connection behind the gate
  gate_call,     \* the latest call through the gate
  gate_arg,      \* the transaction it was given
  gate_result,   \* [thrown, more] of the latest call through the gate
  before         \* the connection before the latest call through the gate

codec_vars == <<given, binary_data, escaped_data, call, buffer, ret, thrown, ub>>

conn_vars == <<home, gate_call, gate_arg, gate_result, before>>

vars == <<codec_vars, conn_vars>>

(***************************************************************************)
(* Inputs.                                                                 *)
(***************************************************************************)
SeqsUpTo(S, n) == UNION {[1..k -> S] : k \in 0..n}

\* chars 0x00, 0x1a, 0x9f, 0xf0, 0xff
ByteSamples == {0, 26, 0 - 97, 0 - 16, 0 - 1}

BinarySeqs == SeqsUpTo(ByteSamples, MaxBytes)

\* \ x 0 a F g X /
ShortAlphabet == {Backslash, CharX, Char0, CharLa, CharUF, 103, 88, 47}

\* 0 9 a f A F g @
BodyAlphabet == {Char0, Char9, CharLa, CharLf, CharUA, CharUF, 103, 64}

Texts ==
  SeqsUpTo(ShortAlphabet, MaxShort)
    \cup {<<Backslash, CharX>> \o b : b \in SeqsUpTo(BodyAlphabet, MaxBody)}

EscCalls == {"esc_bin", "esc_bin_string"}

UnescCalls == {"unesc_bin", "unesc_bin_string"}

\* The caller's buffers: what the call needs, and Slack cells more.
EscBuffer(n) == Memory(2 * n + 3 + Slack, Untouched)

UnescBuffer(n) == Memory(n \div 2 + Slack, Untouched)

\* The zero-terminated string in a char buffer.
RECURSIVE CStringLen(_, _)
CStringLen(cells, i) ==
  IF i > Len(cells) \/ cells[i] = NUL THEN i - 1 ELSE CStringLen(cells, i + 1)

CString(cells) == SubSeq(cells, 1, CStringLen(cells, 1))

\* What the latest call produced, as its caller reads it.
Produced ==
  CASE call = "esc_bin" -> CString(buffer)
    [] call = "esc_bin_string" -> ret
    [] call = "unesc_bin" ->
         [i \in 1..((Len(escaped_data) - 2) \div 2) |-> to_char(buffer[i])]
    [] call = "unesc_bin_string" -> ret
    [] OTHER -> <<>>

NoConnection ==
  [m_trans |-> NoTransaction, copy_state |-> "inactive", pending |-> 0, sent |-> 0]

ConnIdle ==
  /\ home = NoConnection
  /\ gate_call = "none"
  /\ gate_arg = NoTransaction
  /\ gate_result = [thrown |-> NoError, more |-> FALSE]
  /\ before = NoConnection

CodecIdle ==
  /\ given = "binary"
  /\ binary_data = <<>>
  /\ escaped_data = <<>>
  /\ call = "none"
  /\ buffer = <<>>
  /\ ret = <<>>
  /\ thrown = NoError
  /\ ub = FALSE

(***************************************************************************)
(* The codec: a caller holding bytes or text applies the functions.        *)
(***************************************************************************)
CodecInit ==
  /\ given \in {"binary", "text"}
  /\ binary_data \in (IF given = "binary" THEN BinarySeqs ELSE {<<>>})
  /\ escaped_data \in (IF given = "text" THEN Texts ELSE {<<>>})
  /\ call = "none"
  /\ buffer = <<>>
  /\ ret = <<>>
  /\ thrown = NoError
  /\ ub = FALSE

\* esc_bin applies to the bytes given, or to the bytes just decoded.
EscEnabled ==
  \/ call = "none" /\ given = "binary"
  \/ call \in UnescCalls /\ given = "text" /\ thrown = NoError /\ ~ub

EscInput == IF call = "none" THEN binary_data ELSE Produced

\* unesc_bin applies to the text given, or to the text just encoded.
UnescEnabled ==
  \/ call = "none" /\ given = "text"
  \/ call \in EscCalls /\ given = "binary" /\ ~ub

UnescInput == IF call = "none" THEN escaped_data ELSE Produced

EscBinBuffer ==
  /\ EscEnabled
  /\ LET r == esc_bin(EscInput, EscBuffer(Len(EscInput)))
     IN  /\ binary_data' = EscInput
         /\ call' = "esc_bin"
         /\ buffer' = r.cells
         /\ ret' = <<>>
         /\ thrown' = NoError
         /\ ub' = r.ub
  /\ UNCHANGED <<given, escaped_data, conn_vars>>

EscBinString ==
  /\ EscEnabled
  /\ LET r == esc_bin_string(EscInput)
     IN  /\ binary_data' = EscInput
         /\ call' = "esc_bin_string"
         /\ buffer' = <<>>
         /\ ret' = r.ret
         /\ thrown' = NoError
         /\ ub' = r.ub
  /\ UNCHANGED <<given, escaped_data, conn_vars>>

UnescBinBuffer ==
  /\ UnescEnabled
  /\ LET r == unesc_bin(UnescInput, UnescBuffer(Len(UnescInput)))
     IN  /\ escaped_data' = UnescInput
         /\ call' = "unesc_bin"
         /\ buffer' = r.mem.cells
         /\ ret' = <<>>
         /\ thrown' = r.thrown
         /\ ub' = (r.ub \/ r.mem.ub)
  /\ UNCHANGED <<given, binary_data, conn_vars>>

UnescBinString ==
  /\ UnescEnabled
  /\ LET r == unesc_bin_string(UnescInput)
     IN  /\ escaped_data' = UnescInput
         /\ call' = "unesc_bin_string"
         /\ buffer' = <<>>
         /\ ret' = r.ret
         /\ thrown' = r.thrown
         /\ ub' = r.ub
  /\ UNCHANGED <<given, binary_data, conn_vars>>

Init == CodecInit /\ ConnIdle

Next == EscBinBuffer \/ EscBinString \/ UnescBinBuffer \/ UnescBinString

Spec == Init /\ [][Next]_vars

(***************************************************************************)
(* The gate: a transaction calls through it.                               *)
(***************************************************************************)
Called(name, t, r) ==
  /\ before' = home
  /\ home' = r.home
  /\ gate_call' = name
  /\ gate_arg' = t
  /\ gate_result' = [thrown |-> r.thrown, more |-> r.more]
  /\ UNCHANGED codec_vars

Exec ==
  /\ home.copy_state = "inactive"
  /\ \E query \in {"copy-in", "copy-out"} : \E lines \in 0..MaxLines :
       Called("exec", NoTransaction, exec(home, query, lines))

RegisterTransaction ==
  \E t \in Transactions :
    Called("register_transaction", t, register_transaction(home, t))

UnregisterTransaction ==
  \E t \in Transactions :
    Called("unregister_transaction", t, unregister_transaction(home, t))

ReadCopyLine ==
  Called("read_copy_line", NoTransaction, read_copy_line(home))

WriteCopyLine ==
  /\ home.sent < MaxLines
  /\ Called("write_copy_line", NoTransaction, write_copy_line(home))

EndCopyWrite ==
  Called("end_copy_write", NoTransaction, end_copy_write(home))

ConnInit == CodecIdle /\ ConnIdle

ConnNext ==
  \/ Exec
  \/ RegisterTransaction
  \/ UnregisterTransaction
  \/ ReadCopyLine
  \/ WriteCopyLine
  \/ EndCopyWrite

ConnSpec == ConnInit /\ [][ConnNext]_vars

(***************************************************************************)
(* The escaped format, stated independently of the code.                   *)
(***************************************************************************)
Digits == 48..57

LowerHex == Digits \cup 97..102

HexChars == LowerHex \cup 65..70

HexValue(c) ==
  CASE c \in Digits -> c - 48
    [] c \in 97..102 -> c - 87
    [] c \in 65..70 -> c - 55
    [] OTHER -> 0

WellFormed(s) ==
  /\ Len(s) >= 2
  /\ Len(s) % 2 = 0
  /\ s[1] = 92
  /\ s[2] = 120
  /\ \A i \in 3..Len(s) : s[i] \in HexChars

\* The bytes a well-formed text stands for.
BytesOf(s) ==
  [i \in 1..((Len(s) - 2) \div 2) |->
     16 * HexValue(s[2 * i + 1]) + HexValue(s[2 * i + 2])]

\* s with its hex letters A-F in lower case.
Lower(s) ==
  [i \in 1..Len(s) |-> IF i > 2 /\ s[i] \in 65..70 THEN s[i] + 32 ELSE s[i]]

\* The complete pairs of hex digits that follow the prefix of s without a gap.
RECURSIVE ValidPairs(_, _)
ValidPairs(s, k) ==
  IF 2 * k + 4 <= Len(s) /\ s[2 * k + 3] \in HexChars /\ s[2 * k + 4] \in HexChars
    THEN ValidPairs(s, k + 1)
    ELSE k

Written(cells) == {i \in 1..Len(cells) : cells[i] # Untouched}

MalformedInput == {Truncated, InvalidLength, MissingPrefix, InvalidHex}

(***************************************************************************)
(* Claims.                                                                 *)
(***************************************************************************)
\* C1: decoding what esc_bin produced from any byte sequence b succeeds and
\* returns exactly b, whichever of the two esc_bin variants encoded and
\* whichever of the two unesc_bin variants decodes.
C1_RoundTrip ==
  (given = "binary" /\ call \in UnescCalls) =>
    /\ thrown = NoError
    /\ ~ub
    /\ Produced = binary_data

C1_Witness ==
  /\ given = "binary"
  /\ call \in UnescCalls
  /\ Len(binary_data) = 2
  /\ binary_data[1] = 0
  /\ binary_data[2] < 0
  /\ Produced = binary_data

C5_DecodeTotality ==
  call \in UnescCalls =>
    /\ ~ub
    /\ IF WellFormed(escaped_data)
         THEN /\ thrown = NoError
              /\ Produced = [i \in 1..((Len(escaped_data) - 2) \div 2) |->
                               to_char(BytesOf(escaped_data)[i])]
              /\ call = "unesc_bin" =>
                   Written(buffer) = 1..((Len(escaped_data) - 2) \div 2)
         ELSE thrown \in MalformedInput

\* C5, for the variant that decodes into a caller's buffer alone.
C5_BufferVariantTotality == call = "unesc_bin" => C5_DecodeTotality

\* C5, for the allocating variant on texts of at least two characters.
C5_StringVariantTotalityFrom2 ==
  (call = "unesc_bin_string" /\ Len(escaped_data) >= 2) => C5_DecodeTotality

\* C6: the allocating esc_bin returns 2 + 2n characters without a terminator;
\* the buffer-filling esc_bin writes exactly the 3 + 2n cells 0 .. 2+2n, the
\* last one the zero terminator.
C6_EncodeSizes ==
  LET n == Len(binary_data)
  IN  /\ call = "esc_bin_string" =>
           /\ ~ub
           /\ Len(ret) = 2 + 2 * n
           /\ \A i \in 1..Len(ret) : ret[i] # NUL
      /\ call = "esc_bin" =>
           /\ ~ub
           /\ Written(buffer) = 1..(3 + 2 * n)
           /\ buffer[3 + 2 * n] = NUL
           /\ \A i \in 1..(2 + 2 * n) : buffer[i] # NUL

C6_Witness ==
  /\ call = "esc_bin"
  /\ Len(binary_data) = MaxBytes
  /\ buffer[3 + 2 * MaxBytes] = NUL
  /\ Cardinality(Written(buffer)) = 3 + 2 * MaxBytes

\* C7: esc_bin's text is backslash, x, then per input byte its high and its low
\* nibble as one lower-case hex digit each; it is a function of the bytes alone.
C7_EncodeFormat ==
  call \in EscCalls =>
    LET n == Len(binary_data)
        text == Produced
    IN  /\ Len(text) = 2 + 2 * n
        /\ text[1] = 92
        /\ text[2] = 120
        /\ \A i \in 1..n :
             /\ text[2 * i + 1] \in LowerHex
             /\ text[2 * i + 2] \in LowerHex
             /\ HexValue(text[2 * i + 1]) = (binary_data[i] % 256) \div 16
             /\ HexValue(text[2 * i + 2]) = (binary_data[i] % 256) % 16

C7_Witness ==
  /\ call \in EscCalls
  /\ binary_data = <<0 - 1, 26>>
  /\ Produced = <<92, 120, 102, 102, 49, 97>>

\* C9: a well-formed text with any of its hex letters in upper case is accepted
\* and decodes to the bytes of its lower-case form, and encoding those bytes
\* gives the lower-case form.
C9_CaseLenientDecode ==
  /\ (given = "text" /\ call \in UnescCalls /\ WellFormed(Lower(escaped_data))) =>
       /\ thrown = NoError
       /\ Produced = unesc_bin_string(Lower(escaped_data)).ret
       /\ Produced = [i \in 1..Len(Produced) |->
                        to_char(BytesOf(Lower(escaped_data))[i])]
  /\ (given = "text" /\ call \in EscCalls) => Produced = Lower(escaped_data)

C9_Witness ==
  /\ given = "text"
  /\ call \in EscCalls
  /\ escaped_data # Lower(escaped_data)
  /\ Len(escaped_data) = 6
  /\ Produced = Lower(escaped_data)

\* C10 as stated: whenever unesc_bin into a caller's buffer fails, no cell of
\* the buffer has been modified.
C10_FailureLeavesBufferUntouched ==
  (call = "unesc_bin" /\ thrown # NoError) => Written(buffer) = {}

\* C10 amended: a failure with the truncated, odd-length or missing-prefix
\* error leaves the buffer unmodified; a failure with the invalid-hex-digit
\* error leaves in cells 0 .. k-1 the bytes of the k complete valid pairs that
\* precede the first invalid pair, and every other cell unmodified.
C10_FailureWritesValidPairsOnly ==
  (call = "unesc_bin" /\ thrown # NoError) =>
    IF thrown = InvalidHex
      THEN LET k == ValidPairs(escaped_data, 0)
           IN  /\ Written(buffer) = 1..k
               /\ \A i \in 1..k : buffer[i] = BytesOf(escaped_data)[i]
      ELSE Written(buffer) = {}

C10_Witness ==
  /\ call = "unesc_bin"
  /\ thrown = InvalidHex
  /\ Written(buffer) = {1}

\* C2: the slot holds at most one transaction; register_transaction on an
\* occupied slot fails with a usage error and changes nothing; on an empty slot,
\* as after the occupant was unregistered, it succeeds.
C2_SingleActiveTransaction ==
  /\ home.m_trans \in {NoTransaction} \cup Transactions
  /\ gate_call = "register_transaction" =>
       IF before.m_trans # NoTransaction
         THEN gate_result.thrown = UsageError /\ home = before
         ELSE gate_result.thrown = NoError /\ home.m_trans = gate_arg
  /\ (gate_call = "unregister_transaction" /\ before.m_trans = gate_arg) =>
       home.m_trans = NoTransaction

C2_Witness ==
  /\ gate_call = "register_transaction"
  /\ before.m_trans \notin {NoTransaction, gate_arg}
  /\ gate_result.thrown = UsageError
  /\ home.m_trans = before.m_trans

\* C3: unregister_transaction never signals an error; on an empty slot and on a
\* slot held by another transaction it changes nothing.
C3_UnregisterInfallible ==
  gate_call = "unregister_transaction" =>
    /\ gate_result.thrown = NoError
    /\ before.m_trans # gate_arg => home = before

C3_Witness ==
  /\ gate_call = "unregister_transaction"
  /\ before.m_trans \notin {NoTransaction, gate_arg}
  /\ gate_result.thrown = NoError
  /\ home = before

\* C8: from copy-in, write_copy_line keeps the stream open and end_copy_write
\* leaves it inactive; from copy-out, read_copy_line leaves it inactive exactly
\* when it returns more = false; on an inactive stream each of the three fails
\* with a usage error.
C8_CopyLifecycle ==
  LET stream == {"read_copy_line", "write_copy_line", "end_copy_write"}
  IN  /\ (gate_call = "write_copy_line" /\ before.copy_state = "copy-in") =>
           gate_result.thrown = NoError /\ home.copy_state = "copy-in"
      /\ (gate_call = "end_copy_write" /\ before.copy_state = "copy-in") =>
           gate_result.thrown = NoError /\ home.copy_state = "inactive"
      /\ (gate_call = "read_copy_line" /\ before.copy_state = "copy-out") =>
           /\ gate_result.thrown = NoError
           /\ gate_result.more => home.copy_state = "copy-out"
           /\ ~gate_result.more => home.copy_state = "inactive"
      /\ (gate_call \in stream /\ before.copy_state = "inactive") =>
           gate_result.thrown = UsageError /\ home = before

C8_Witness ==
  /\ gate_call = "end_copy_write"
  /\ before.copy_state = "copy-in"
  /\ before.sent = MaxLines
  /\ home.copy_state = "inactive"
====
